---- MODULE Spec2Model ----
(***************************************************************************)
(* Backend supervisor of karios-desktop (apps/desktop-ui/src-tauri):       *)
(* BackendManager::start_on_launch / stop_all, spawn_backend, wait_port,  *)
(* find_external_bin and candidate_dirs of backends.rs, driven by caller  *)
(* threads that hold a shared reference to the managed BackendManager.    *)
(***************************************************************************)
EXTENDS Integers, Sequences, FiniteSets, TLC

VARIABLES
  debug,        \* cfg!(debug_assertions) of the build
  dataDirOk,    \* whether app.path().app_data_dir() resolves
  exeDir,       \* directory of current_exe(), 0 when it does not resolve
  resDir,       \* app.path().resource_dir(), 0 when it does not resolve
  hasTriple,    \* whether TAURI_ENV_TARGET_TRIPLE was set at compile time
  files,        \* existing files: <<dir, service, variant>>
  located,      \* what the last search for a service's binary came to
  latch,        \* START_ONCE holds a value
  lock,         \* holder of the children mutex, 0 when free
  children,     \* BackendManager.children
  pc,           \* position of each caller thread
  slot,         \* which launch attempt of the sequence the thread is in
  spawned,      \* the local Vec `spawned` of start_on_launch
  elapsed,      \* start.elapsed() of the running wait_port, in ms
  dataDir,      \* the local `app_data_dir` of start_on_launch
  result,       \* what spawn_backend returned, per thread and service
  waited,       \* what wait_port returned, per thread and service
  proc,         \* child processes, per <<thread, service>>
  listener,     \* which process accepts connections on a service's port
  stopIdx,      \* position of stop_all's loop over the registry
  killCount,    \* history: how often child.kill() was called on a process
  entered,      \* history: threads that went past the START_ONCE check
  startReturned,\* history: "never", "once" a start_on_launch call has returned,
                \* "again" once a call that began after that has returned too
  late,         \* history: the thread's call began after a start had returned
  lastWrite,    \* history: the last completed write to the registry
  stopSaw,      \* history: the registry as the running stop_all locked it
  stopKills,    \* history: processes the running stop_all called kill on
  orphaned      \* history: children in flight the last stop_all overlooked

envVars == <<debug, dataDirOk, exeDir, resDir, hasTriple, files>>
stopVars == <<stopIdx, stopSaw, stopKills>>
vars == <<debug, dataDirOk, exeDir, resDir, hasTriple, files, located, latch, lock,
          children, pc, slot, spawned, elapsed, dataDir, result, waited, proc,
          listener, stopIdx, killCount, entered, startReturned, late,
          lastWrite, stopSaw, stopKills, orphaned>>

-----------------------------------------------------------------------------
(* Bounds of the model *)

\* Threads that call into the BackendManager.
NThreads == 2
\* Directories the executable and the resources may lie in.
MaxDir == 2
\* Time one unsuccessful turn of wait_port's loop takes (the connect attempt,
\* the 120 ms sleep and whatever the scheduler adds), in ms.
TickMs == 9000

(* Program constants *)

AiPort == 4310
QuantPort == 4320
AiTimeoutMs == 10000
QuantTimeoutMs == 25000

Threads == 1..NThreads
NoThread == 0
NoDir == 0

Primary == "karios-ai-service"
Secondary == "karios-quant-service"
Services == {Primary, Secondary}
Pids == Threads \X Services

\* Holders of a port: nobody, a process that is no child of this supervisor,
\* or a child.
NoListener == <<NoThread, "none">>
Foreign == <<NoThread, "foreign">>

Port(s) == IF s = Primary THEN AiPort ELSE QuantPort
Timeout(s) == IF s = Primary THEN AiTimeoutMs ELSE QuantTimeoutMs

Ok == "Ok"
BinaryNotFound == "BinaryNotFound"
DataDirUnavailable == "DataDirUnavailable"
SpawnFailure == "SpawnFailure"
ReadinessTimeout == "ReadinessTimeout"
Errors == {BinaryNotFound, DataDirUnavailable, SpawnFailure, ReadinessTimeout}
Concluded == Errors \cup {Ok}

-----------------------------------------------------------------------------
(* Binary locator *)

RECURSIVE Insert(_, _)
Insert(d, sorted) ==
  IF sorted = <<>> THEN <<d>>
  ELSE IF d <= Head(sorted) THEN <<d>> \o sorted
  ELSE <<Head(sorted)>> \o Insert(d, Tail(sorted))

RECURSIVE Sort(_)
Sort(ds) == IF ds = <<>> THEN <<>> ELSE Insert(Head(ds), Sort(Tail(ds)))

RECURSIVE Dedup(_)
Dedup(ds) ==
  IF Len(ds) <= 1 THEN ds
  ELSE IF ds[1] = ds[2] THEN Dedup(Tail(ds))
  ELSE <<Head(ds)>> \o Dedup(Tail(ds))

\* Directories are numbered in the order PathBuf's Ord gives them.
candidate_dirs ==
  LET a == IF exeDir # NoDir THEN <<exeDir>> ELSE <<>>
      b == IF resDir # NoDir THEN <<resDir>> ELSE <<>>
  IN  Dedup(Sort(a \o b))

\* Variant: the plain name is pushed before the qualified one.
CandidatesPlainFirst ==
  IF hasTriple THEN <<"plain", "qualified">> ELSE <<"plain">>

\* {name}-{triple}{suffix} when the triple is known, then {name}{suffix}.
Candidates == IF hasTriple THEN <<"qualified", "plain">> ELSE <<"plain">>

None == <<>>

RECURSIVE FirstExisting(_, _, _, _)
FirstExisting(s, dirs, i, j) ==
  IF i > Len(dirs) THEN None
  ELSE IF j > Len(Candidates) THEN FirstExisting(s, dirs, i + 1, 1)
  ELSE IF <<dirs[i], s, Candidates[j]>> \in files
       THEN <<dirs[i], s, Candidates[j]>>
       ELSE FirstExisting(s, dirs, i, j + 1)

find_external_bin(s) == FirstExisting(s, candidate_dirs, 1, 1)

Dirs == 1..MaxDir
Variants == {"qualified", "plain"}
NotLocated == [done |-> FALSE, dirs |-> <<>>, bin |-> None]

-----------------------------------------------------------------------------
(* Readiness probe *)

is_port_open(s) == listener[s] # NoListener

\* Variant: wait_port's result is not looked at.
SpawnResultUnchecked(ready) == Ok

\* spawn_backend's result once the child is spawned and wait_port returned.
SpawnResult(ready) == IF ready THEN Ok ELSE ReadinessTimeout

-----------------------------------------------------------------------------
(* Supervisor *)

\* Variant: the two spawn_backend calls in the other order.
LaunchOrderSwapped == <<Secondary, Primary>>

\* Ai-service first, quant-service second.
LaunchOrder == <<Primary, Secondary>>
ServiceAt(k) == LaunchOrder[k]

\* Variant: an Err ends the launch sequence.
NextSlotAbort(k, res) == IF res = Ok THEN k + 1 ELSE Len(LaunchOrder) + 1

\* Both match arms fall through to the next statement.
NextSlot(k, res) == k + 1

\* Variant: the quant arm records the ai arm's name and port.
EntryCopied(s, p) == [name |-> Primary, port |-> AiPort, child |-> p]

\* BackendChild { name, port, child }
Entry(s, p) == [name |-> s, port |-> Port(s), child |-> p]

\* Variant: the latch is never set.
SetLatchForgotten(l) == l

\* START_ONCE.set(()).ok()
SetLatch(l) == TRUE

\* Variant: the debug build launches as the release build does.
SkipInDevNever(d) == FALSE

\* if cfg!(debug_assertions) { return; }
SkipInDev(d) == d

\* Variant: the registry is entered without waiting for the mutex.
LockFreeAlways(l) == TRUE

\* self.children.lock() returns once no other thread holds the mutex.
LockFree(l) == l = NoThread

\* Variant: the loop never looks at the deadline.
MayProbeAlways(e, s) == TRUE

\* while start.elapsed() < timeout
MayProbe(e, s) == e < Timeout(s)

\* A failed connect attempt and the sleep after it let time pass.
Advance(e) == e + TickMs

\* Variant: the new list is appended to the old one.
AssignRegistryAppend(old, new) == old \o new

\* The assignment drops the old Vec and stores the new one.
AssignRegistry(old, new) == new

\* Variant: a failed kill ends the loop.
AfterKillBreak(i, ok, n) == IF ok THEN i + 1 ELSE n + 1

\* The loop goes on to the next child whatever kill returned.
AfterKill(i, ok, n) == i + 1

\* Variant: the registry is not cleared.
ClearedNot(reg) == reg

\* children.clear()
Cleared(reg) == <<>>

ChildrenOf(reg) == {reg[i].child : i \in 1..Len(reg)}

InFlight(t) == pc[t] \in {"launch", "wait", "assign"}

NoWrite == [op |-> "none", by |-> NoThread, saw |-> <<>>, kills |-> {},
            after |-> "none"]

\* The BackendManager as run() constructs it, no call made yet.
InitProgram ==
  /\ located = [s \in Services |-> NotLocated]
  /\ latch = FALSE
  /\ lock = NoThread
  /\ children = <<>>
  /\ pc = [t \in Threads |-> "idle"]
  /\ slot = [t \in Threads |-> 0]
  /\ spawned = [t \in Threads |-> <<>>]
  /\ elapsed = [t \in Threads |-> 0]
  /\ dataDir = [t \in Threads |-> "unset"]
  /\ result = [t \in Threads |-> [s \in Services |-> "none"]]
  /\ waited = [t \in Threads |-> [s \in Services |-> "none"]]
  /\ proc = [p \in Pids |-> "none"]
  /\ stopIdx = 0
  /\ killCount = [p \in Pids |-> 0]
  /\ entered = {}
  /\ startReturned = "never"
  /\ late = [t \in Threads |-> FALSE]
  /\ lastWrite = NoWrite
  /\ stopSaw = <<>>
  /\ stopKills = {}
  /\ orphaned = {}

\* A bundle whose binaries, when present, lie beside the executable under
\* their qualified names.
Init ==
  /\ debug \in BOOLEAN
  /\ dataDirOk \in BOOLEAN
  /\ exeDir = 1
  /\ resDir = 2
  /\ hasTriple = TRUE
  /\ \E present \in SUBSET Services :
       files = {<<exeDir, s, "qualified">> : s \in present}
  /\ listener \in [Services -> {NoListener, Foreign}]
  /\ InitProgram

\* Any layout of directories and files, for the binary locator alone.
InitLocator ==
  /\ debug = FALSE
  /\ dataDirOk = TRUE
  /\ exeDir \in {NoDir} \cup Dirs
  /\ resDir \in {NoDir} \cup Dirs
  /\ hasTriple \in BOOLEAN
  /\ files \in SUBSET (Dirs \X Services \X Variants)
  /\ listener = [s \in Services |-> NoListener]
  /\ InitProgram

\* spawn_backend's search: find_external_bin(app, name), and candidate_dirs(app)
\* as the error message prints it.
Locate(s) ==
  /\ ~located[s].done
  /\ located' = [located EXCEPT
       ![s] = [done |-> TRUE, dirs |-> candidate_dirs,
               bin |-> find_external_bin(s)]]
  /\ UNCHANGED <<envVars, latch, lock, children, pc, slot, spawned, elapsed,
                 dataDir, result, waited, proc, listener, stopIdx, killCount,
                 entered, startReturned, late, lastWrite, stopSaw, stopKills,
                 orphaned>>

NextLocator == \E s \in Services : Locate(s)

SpecLocator == InitLocator /\ [][NextLocator]_vars

\* start_on_launch returns to its caller.
ReturnFromStart(t) ==
  /\ pc' = [pc EXCEPT ![t] = "idle"]
  /\ startReturned' = IF startReturned = "never" THEN "once" ELSE startReturned
  /\ late' = [late EXCEPT ![t] = FALSE]

\* Idle threads are interchangeable: the lowest one takes the next call.
Free(t) == pc[t] = "idle" /\ \A u \in 1..(t - 1) : pc[u] # "idle"

\* A thread calls mgr.start_on_launch(app):
\* if START_ONCE.get().is_some() { return; }
StartCheck(t) ==
  /\ Free(t)
  /\ IF latch
       THEN /\ startReturned' = IF startReturned = "never" THEN "once" ELSE "again"
            /\ UNCHANGED <<pc, late>>
       ELSE /\ pc' = [pc EXCEPT ![t] = "start_set"]
            /\ late' = [late EXCEPT ![t] = startReturned # "never"]
            /\ UNCHANGED startReturned
  /\ UNCHANGED <<envVars, located, stopVars, latch, lock, children, slot, spawned,
                 elapsed, dataDir, result, waited, proc, listener, killCount,
                 entered, lastWrite, orphaned>>

\* START_ONCE.set(()).ok(); the debug return; the app_data_dir fallback.
StartSet(t) ==
  /\ pc[t] = "start_set"
  /\ latch' = SetLatch(latch)
  /\ entered' = entered \cup {t}
  /\ IF SkipInDev(debug)
       THEN /\ ReturnFromStart(t)
            /\ UNCHANGED <<slot, dataDir>>
       ELSE /\ pc' = [pc EXCEPT ![t] = "launch"]
            /\ slot' = [slot EXCEPT ![t] = 1]
            /\ dataDir' = [dataDir EXCEPT
                 ![t] = IF dataDirOk THEN "resolved" ELSE "."]
            /\ UNCHANGED <<startReturned, late>>
  /\ UNCHANGED <<envVars, located, stopVars, lock, children, spawned, elapsed, result,
                 waited, proc, listener, killCount, lastWrite, orphaned>>

\* spawn_backend has returned res for service s: the match arm, then on.
Conclude(t, s, res) ==
  /\ result' = [result EXCEPT ![t][s] = res]
  /\ elapsed' = [elapsed EXCEPT ![t] = 0]
  /\ spawned' = [spawned EXCEPT
       ![t] = IF res = Ok THEN Append(@, Entry(s, <<t, s>>)) ELSE @]
  /\ IF NextSlot(slot[t], res) <= Len(LaunchOrder)
       THEN /\ slot' = [slot EXCEPT ![t] = NextSlot(slot[t], res)]
            /\ pc' = [pc EXCEPT ![t] = "launch"]
       ELSE /\ slot' = [slot EXCEPT ![t] = 0]
            /\ pc' = [pc EXCEPT ![t] = "assign"]

\* spawn_backend up to cmd.spawn(): the binary is located, the log directory
\* resolved, the log file opened and the process spawned. SpawnFailure stands
\* for every Err of lines 115-140 (log file open or clone, cmd.spawn()).
Launch(t) ==
  /\ pc[t] = "launch"
  /\ LET s == ServiceAt(slot[t]) IN
       \/ /\ find_external_bin(s) = None
          /\ Conclude(t, s, BinaryNotFound)
          /\ UNCHANGED proc
       \/ /\ find_external_bin(s) # None
          /\ ~dataDirOk
          /\ Conclude(t, s, DataDirUnavailable)
          /\ UNCHANGED proc
       \/ /\ find_external_bin(s) # None
          /\ dataDirOk
          /\ Conclude(t, s, SpawnFailure)
          /\ UNCHANGED proc
       \/ /\ find_external_bin(s) # None
          /\ dataDirOk
          /\ proc' = [proc EXCEPT ![<<t, s>>] = "alive"]
          /\ result' = [result EXCEPT ![t][s] = "running"]
          /\ elapsed' = [elapsed EXCEPT ![t] = 0]
          /\ pc' = [pc EXCEPT ![t] = "wait"]
          /\ UNCHANGED <<slot, spawned>>
  /\ UNCHANGED <<envVars, located, stopVars, latch, lock, children, dataDir, waited,
                 listener, killCount, entered, startReturned, late, lastWrite,
                 orphaned>>

\* One turn of wait_port's loop, and spawn_backend's return after it.
WaitPort(t) ==
  /\ pc[t] = "wait"
  /\ LET s == ServiceAt(slot[t]) IN
       IF MayProbe(elapsed[t], s)
         THEN IF is_port_open(s)
                THEN /\ waited' = [waited EXCEPT ![t][s] = "ready"]
                     /\ Conclude(t, s, SpawnResult(TRUE))
                ELSE /\ elapsed' = [elapsed EXCEPT ![t] = Advance(@)]
                     /\ UNCHANGED <<waited, result, spawned, slot, pc>>
         ELSE /\ waited' = [waited EXCEPT ![t][s] = "timeout"]
              /\ Conclude(t, s, SpawnResult(FALSE))
  /\ UNCHANGED <<envVars, located, stopVars, latch, lock, children, dataDir, proc,
                 listener, killCount, entered, startReturned, late, lastWrite,
                 orphaned>>

\* *self.children.lock().expect(..) = spawned;
Assign(t) ==
  /\ pc[t] = "assign"
  /\ LockFree(lock)
  /\ children' = AssignRegistry(children, spawned[t])
  /\ lastWrite' = [op |-> "assign", by |-> t, saw |-> <<>>, kills |-> {},
                   after |-> lastWrite.op]
  /\ orphaned' = {}
  /\ ReturnFromStart(t)
  /\ UNCHANGED <<envVars, located, stopVars, latch, lock, slot, spawned, elapsed,
                 dataDir, result, waited, proc, listener, killCount, entered>>

\* A thread calls mgr.stop_all() while another thread holds the mutex:
\* self.children.lock() blocks.
StopBlock(t) ==
  /\ Free(t)
  /\ ~LockFree(lock)
  /\ pc' = [pc EXCEPT ![t] = "stop_wait"]
  /\ UNCHANGED <<envVars, located, stopVars, latch, lock, children, slot,
                 spawned, elapsed, dataDir, result, waited, proc, listener,
                 killCount, entered, startReturned, late, lastWrite, orphaned>>

\* A thread calls mgr.stop_all() with the mutex free, or a blocked stop_all
\* gets the mutex:
\* let mut children = self.children.lock().expect(..);
StopLock(t) ==
  /\ Free(t) \/ pc[t] = "stop_wait"
  /\ LockFree(lock)
  /\ lock' = t
  /\ stopIdx' = 1
  /\ stopSaw' = children
  /\ stopKills' = {}
  /\ pc' = [pc EXCEPT ![t] = "stop_kill"]
  /\ UNCHANGED <<envVars, located, latch, children, slot, spawned, elapsed, dataDir,
                 result, waited, proc, listener, killCount, entered,
                 startReturned, late, lastWrite, orphaned>>

\* let _ = c.child.kill(); for the next recorded child.
StopKill(t) ==
  /\ pc[t] = "stop_kill"
  /\ lock = t
  /\ stopIdx <= Len(children)
  /\ LET p == children[stopIdx].child IN
     \E ok \in BOOLEAN :
       /\ killCount' = [killCount EXCEPT ![p] = @ + 1]
       /\ proc' = [proc EXCEPT ![p] = IF ok THEN "dead" ELSE @]
       /\ listener' = [s \in Services |->
            IF ok /\ listener[s] = p THEN NoListener ELSE listener[s]]
       /\ stopKills' = stopKills \cup {p}
       /\ stopIdx' = AfterKill(stopIdx, ok, Len(children))
  /\ UNCHANGED <<envVars, located, latch, lock, children, pc, slot, spawned, elapsed,
                 dataDir, result, waited, entered, startReturned, late,
                 lastWrite, stopSaw, orphaned>>

\* children.clear(); the guard is dropped and stop_all returns.
StopClear(t) ==
  /\ pc[t] = "stop_kill"
  /\ lock = t
  /\ stopIdx > Len(children)
  /\ children' = Cleared(children)
  /\ lock' = NoThread
  /\ lastWrite' = [op |-> "stop", by |-> NoThread, saw |-> stopSaw,
                   kills |-> stopKills, after |-> lastWrite.op]
  /\ orphaned' = {p \in Pids : /\ proc[p] = "alive"
                                /\ killCount[p] = 0
                                /\ InFlight(p[1])}
  /\ stopIdx' = 0
  /\ stopSaw' = <<>>
  /\ stopKills' = {}
  /\ pc' = [pc EXCEPT ![t] = "idle"]
  /\ UNCHANGED <<envVars, located, latch, slot, spawned, elapsed, dataDir, result,
                 waited, proc, listener, killCount, entered, startReturned,
                 late>>

\* A running child binds its port and starts accepting connections.
ChildListens(p) ==
  /\ proc[p] = "alive"
  /\ listener[p[2]] = NoListener
  /\ listener' = [listener EXCEPT ![p[2]] = p]
  /\ UNCHANGED <<envVars, located, stopVars, latch, lock, children, pc, slot, spawned,
                 elapsed, dataDir, result, waited, proc, killCount, entered,
                 startReturned, late, lastWrite, orphaned>>

\* A running child exits on its own.
ChildExits(p) ==
  /\ proc[p] = "alive"
  /\ proc' = [proc EXCEPT ![p] = "dead"]
  /\ listener' = [s \in Services |->
       IF listener[s] = p THEN NoListener ELSE listener[s]]
  /\ UNCHANGED <<envVars, located, stopVars, latch, lock, children, pc, slot, spawned,
                 elapsed, dataDir, result, waited, killCount, entered,
                 startReturned, late, lastWrite, orphaned>>

Next ==
  \/ \E t \in Threads : StartCheck(t)
  \/ \E t \in Threads : StartSet(t)
  \/ \E t \in Threads : Launch(t)
  \/ \E t \in Threads : WaitPort(t)
  \/ \E t \in Threads : Assign(t)
  \/ \E t \in Threads : StopBlock(t)
  \/ \E t \in Threads : StopLock(t)
  \/ \E t \in Threads : StopKill(t)
  \/ \E t \in Threads : StopClear(t)
  \/ \E p \in Pids : ChildListens(p)
  \/ \E p \in Pids : ChildExits(p)

Spec == Init /\ [][Next]_vars

\* The step a thread inside start_on_launch or stop_all takes next.
InCall(t) ==
  \/ StartSet(t)
  \/ Launch(t)
  \/ WaitPort(t)
  \/ Assign(t)
  \/ pc[t] = "stop_wait" /\ StopLock(t)
  \/ StopKill(t)
  \/ StopClear(t)

\* A thread inside a call keeps running: a step that stays possible is taken.
\* A thread blocked in lock() goes on if the mutex stays free; the mutex
\* promises nothing to a waiter when other threads keep taking it.
Fairness == \A t \in Threads : WF_vars(InCall(t))

SpecFair == Init /\ [][Next]_vars /\ Fairness

-----------------------------------------------------------------------------
(* Claims *)

Body == {"start_set", "launch", "wait", "assign"}
Other(s) == IF s = Primary THEN Secondary ELSE Primary
Spawned(t, s) == proc[<<t, s>>] # "none"
HasEntry(reg, s) == \E i \in 1..Len(reg) : reg[i].name = s
PassDone(t) == lastWrite.op = "assign" /\ lastWrite.by = t

\* C1: however many threads call start_on_launch, at most one of them goes
\* past the START_ONCE check and runs the launch sequence's body.
C1_BodyRunsOnce == Cardinality(entered) <= 1

\* C2: no stop_all runs to completion while a child that a start_on_launch in
\* flight has spawned, and not yet stored in the registry, is alive and has
\* not been issued a kill.
C2_NoOrphanedChild == orphaned = {}

\* C3: within a launch sequence the secondary service's attempt has begun only
\* if the primary's attempt has concluded, with success or with any error.
C3_SecondaryAfterPrimary ==
  \A t \in Threads :
    result[t][Secondary] # "none" => result[t][Primary] \in Concluded

C3_Witness ==
  \E t \in Threads :
    /\ result[t][Secondary] = "running"
    /\ result[t][Primary] \in Errors

\* C4: a service whose wait_port timed out is in no registry and in no
\* thread's `spawned`; after the timeout the launch sequence goes on to the
\* other service, and when the pass's assignment is the last write to the
\* registry, an other service that was spawned and became ready is recorded.
C4_TimeoutNotRecorded ==
  \A t \in Threads : \A s \in Services :
    waited[t][s] = "timeout" =>
      /\ <<t, s>> \notin ChildrenOf(children)
      /\ <<t, s>> \notin ChildrenOf(spawned[t])
      /\ \/ result[t][Other(s)] # "none"
         \/ pc[t] = "launch"
      /\ (PassDone(t) /\ Spawned(t, Other(s)) /\ waited[t][Other(s)] = "ready")
           => children = <<Entry(Other(s), <<t, Other(s)>>)>>

C4_Witness ==
  \E t \in Threads :
    /\ PassDone(t)
    /\ waited[t][Primary] = "timeout"
    /\ waited[t][Secondary] = "ready"
    /\ Len(children) = 1

\* C5: when the pass whose primary attempt failed and whose secondary attempt
\* succeeded has stored its result, the registry is exactly the secondary's
\* entry; and a stop_all that finds exactly that entry calls kill on that one
\* process and on no other.
C5_PartialFailure ==
  \A t \in Threads :
    /\ (PassDone(t) /\ result[t][Primary] \in Errors /\ result[t][Secondary] = Ok)
         => children = <<[name |-> Secondary, port |-> QuantPort,
                          child |-> <<t, Secondary>>]>>
    /\ (/\ lastWrite.op = "stop"
        /\ result[t][Primary] \in Errors
        /\ Len(lastWrite.saw) = 1
        /\ lastWrite.saw[1].child = <<t, Secondary>>)
         => /\ lastWrite.saw[1].name = Secondary
            /\ lastWrite.kills = {<<t, Secondary>>}

C5_Witness ==
  \E t \in Threads :
    /\ lastWrite.op = "stop"
    /\ result[t][Primary] \in Errors
    /\ result[t][Secondary] = Ok
    /\ lastWrite.saw = <<Entry(Secondary, <<t, Secondary>>)>>
    /\ lastWrite.kills = {<<t, Secondary>>}

\* C6: while a pass's assignment is the last write to the registry, the
\* registry holds an entry for a service iff that pass spawned the service's
\* process and its wait_port returned true, the primary before the secondary.
ExpectedRegistry(t) ==
  SelectSeq(<<Entry(Primary, <<t, Primary>>), Entry(Secondary, <<t, Secondary>>)>>,
            LAMBDA e : Spawned(t, e.name) /\ waited[t][e.name] = "ready")

C6_RegistryMembership ==
  \A t \in Threads : PassDone(t) => children = ExpectedRegistry(t)

C6_Witness ==
  \E t \in Threads : \E s \in Services :
    /\ PassDone(t)
    /\ Spawned(t, s) /\ waited[t][s] = "timeout"
    /\ Spawned(t, Other(s)) /\ waited[t][Other(s)] = "ready"
    /\ HasEntry(children, Other(s))
    /\ ~HasEntry(children, s)

\* C7: when a stop_all is the last write to the registry, the registry is
\* empty and kill has been called on every process the registry held when
\* stop_all took the lock, whatever the kills returned.
C7_StopKillsAllAndClears ==
  lastWrite.op = "stop" =>
    /\ children = <<>>
    /\ \A p \in ChildrenOf(lastWrite.saw) :
         p \in lastWrite.kills /\ killCount[p] >= 1

\* The first recorded process outlived its kill (the kill failed), and the
\* second was still issued one.
C7_Witness ==
  /\ lastWrite.op = "stop"
  /\ Len(lastWrite.saw) = 2
  /\ proc[lastWrite.saw[1].child] = "alive"
  /\ killCount[lastWrite.saw[1].child] = 1
  /\ killCount[lastWrite.saw[2].child] = 1

\* C8: a stop_all that finds the registry empty kills nothing and leaves it
\* empty; a stop_all that follows a stop_all finds it empty; and no process
\* is ever issued a second kill.
C8_StopIdempotent ==
  /\ (lastWrite.op = "stop" /\ lastWrite.saw = <<>>)
       => (lastWrite.kills = {} /\ children = <<>>)
  /\ (lastWrite.op = "stop" /\ lastWrite.after = "stop")
       => (lastWrite.saw = <<>> /\ children = <<>>)
  /\ \A p \in Pids : killCount[p] <= 1

C8_Witness ==
  /\ lastWrite.op = "stop"
  /\ lastWrite.after = "stop"
  /\ \E p \in Pids : killCount[p] = 1

\* C9: when app_data_dir does not resolve and start_on_launch has fallen back
\* to ".", no service's launch attempt fails for want of the data directory.
C9_DataDirNotFatal ==
  \A t \in Threads : \A s \in Services :
    dataDir[t] = "." => result[t][s] # DataDirUnavailable

\* C10: a start_on_launch call that begins after a start_on_launch call has
\* returned never gets past the START_ONCE check, so it spawns nothing and
\* writes nothing; the latch is set from the first return on.
C10_NoRestart ==
  /\ startReturned # "never" => latch
  /\ \A t \in Threads : late[t] => pc[t] \notin Body

\* A later call has come back after a stop_all, with a service that failed.
C10_Witness ==
  /\ startReturned = "again"
  /\ lastWrite.op = "stop"
  /\ \E t \in Threads : result[t][Primary] \in Errors

\* C11: once a stop_all has completed (and nothing has been written to the
\* registry since), no step makes the registry non-empty and no step spawns
\* a service process.
C11_StoppedIsFinal ==
  [][lastWrite.op = "stop" =>
       /\ children' = <<>>
       /\ \A p \in Pids : proc[p] = "none" => proc'[p] = "none"]_vars

\* C12: find_external_bin returns the first existing path, going through the
\* candidate directories in their order and, within a directory, taking the
\* qualified name (when the triple is known) before the plain one; it returns
\* None iff no candidate name exists in any candidate directory.
Searched(v) == v = "plain" \/ hasTriple
Hits(s, dirs) ==
  {h \in (1..Len(dirs)) \X Variants : Searched(h[2]) /\ <<dirs[h[1]], s, h[2]>> \in files}
Before(h, g) ==
  h[1] < g[1] \/ (h[1] = g[1] /\ (h[2] = "qualified" \/ g[2] = "plain"))

C12_Precedence ==
  \A s \in Services :
    located[s].done =>
      LET dirs == located[s].dirs
          hits == Hits(s, dirs)
      IN  IF hits = {}
            THEN located[s].bin = None
            ELSE \E h \in hits :
                   /\ located[s].bin = <<dirs[h[1]], s, h[2]>>
                   /\ \A g \in hits : Before(h, g)

\* Both names exist in the first candidate directory and the qualified one
\* came back.
C12_Witness ==
  \E s \in Services :
    /\ located[s].done
    /\ hasTriple
    /\ Len(located[s].dirs) = 2
    /\ <<located[s].dirs[1], s, "plain">> \in files
    /\ <<located[s].dirs[1], s, "qualified">> \in files
    /\ located[s].bin = <<located[s].dirs[1], s, "qualified">>

\* C13: when both directories resolve, candidate_dirs is the executable's
\* directory and then the resource directory, or the one directory when the
\* two are equal.
C13_OrderPreserved ==
  \A s \in Services :
    (located[s].done /\ exeDir # NoDir /\ resDir # NoDir) =>
      located[s].dirs = IF exeDir = resDir THEN <<exeDir>> ELSE <<exeDir, resDir>>

\* C14: in a debug build start_on_launch spawns no process, probes no port and
\* does not write the registry; the latch is set by the call that entered.
C14_DebugSkipsLaunch ==
  debug =>
    /\ \A p \in Pids : proc[p] = "none"
    /\ \A t \in Threads : \A s \in Services :
         result[t][s] = "none" /\ waited[t][s] = "none"
    /\ \A t \in Threads : spawned[t] = <<>>
    /\ children = <<>>
    /\ lastWrite.op # "assign"
    /\ entered # {} => latch

\* A debug-build start_on_launch has entered and returned, and a later call
\* has found the latch set.
C14_Witness ==
  /\ debug
  /\ entered # {}
  /\ latch
  /\ startReturned = "again"
  /\ \A t \in Threads : pc[t] = "idle"

\* C15: the registry changes only in a step of the thread that holds the lock
\* (stop_all's clear) or in the one step in which a launch pass takes the free
\* lock, stores its whole list and releases the lock; a pass's primary entry
\* is never in the registry while that pass's secondary attempt is undecided.
C15_AtomicReplace ==
  /\ [](\A t \in Threads :
          <<t, Primary>> \in ChildrenOf(children) =>
            result[t][Secondary] \in Concluded)
  /\ [][children' # children =>
          \/ /\ lock = NoThread
             /\ \E t \in Threads :
                  /\ pc[t] = "assign"
                  /\ pc'[t] = "idle"
                  /\ children' = spawned[t]
                  /\ \A s \in Services : result[t][s] \in Concluded
          \/ /\ lock \in Threads
             /\ pc[lock] = "stop_kill"
             /\ pc'[lock] = "idle"]_vars

\* A pass has recorded its primary service in its local list and is waiting
\* for the secondary, while a stop_all holds the lock and has seen an empty
\* registry.
C15_Witness ==
  \E t \in Threads : \E u \in Threads \ {t} :
    /\ result[t][Primary] = Ok
    /\ result[t][Secondary] = "running"
    /\ Len(spawned[t]) = 1
    /\ lock = u
    /\ pc[u] = "stop_kill"
    /\ stopSaw = <<>>
    /\ children = <<>>

Waiting(t, s) == pc[t] = "wait" /\ ServiceAt(slot[t]) = s
Moved(t) == pc'[t] # pc[t] \/ elapsed'[t] # elapsed[t] \/ waited'[t] # waited[t]

C17_WaitPort ==
  [][\A t \in Threads : \A s \in Services :
       /\ (waited'[t][s] = "ready" /\ waited[t][s] # "ready") =>
            Waiting(t, s) /\ elapsed[t] < Timeout(s) /\ is_port_open(s)
       /\ (waited'[t][s] = "timeout" /\ waited[t][s] # "timeout") =>
            Waiting(t, s) /\ elapsed[t] >= Timeout(s)
       /\ (Waiting(t, s) /\ Moved(t)) =>
            IF elapsed[t] >= Timeout(s) THEN waited'[t][s] = "timeout"
            ELSE IF is_port_open(s) THEN waited'[t][s] = "ready"
            ELSE /\ elapsed'[t] = elapsed[t] + TickMs
                 /\ pc'[t] = "wait"
                 /\ waited'[t][s] = waited[t][s]]_vars

\* The wait for the primary service ended at its deadline; the wait for the
\* secondary has had a failed attempt and finds the port open before its
\* deadline.
C17_Witness ==
  \E t \in Threads :
    /\ Waiting(t, Secondary)
    /\ waited[t][Primary] = "timeout"
    /\ elapsed[t] > 0
    /\ elapsed[t] < Timeout(Secondary)
    /\ is_port_open(Secondary)

\* C18: whenever no start_on_launch is in flight, every service process that
\* is running and has not been sent a kill is in the registry.
C18_NoLeakedChild ==
  (\A t \in Threads : pc[t] \notin Body) =>
    \A p \in Pids :
      (proc[p] = "alive" /\ killCount[p] = 0) => p \in ChildrenOf(children)

\* C19: a service is concluded Ok only when the listener on its port is the
\* child spawned for it in this pass.
C19_ReadyMeansOwnChild ==
  [][\A t \in Threads : \A s \in Services :
       (result'[t][s] = Ok /\ result[t][s] # Ok) => listener[s] = <<t, s>>]_vars

\* C20: the registry holds at most two entries, at most one per service name
\* and per port, and the primary service's entry comes before the secondary's.
C20_RegistryShape ==
  /\ Len(children) <= Cardinality(Services)
  /\ \A i \in 1..Len(children) : \A j \in 1..Len(children) :
       i < j =>
         /\ children[i].name # children[j].name
         /\ children[i].port # children[j].port
         /\ children[i].name = Primary
         /\ children[j].name = Secondary

\* Both services are recorded.
C20_Witness ==
  /\ Len(children) = Cardinality(Services)
  /\ children[1].name = Primary
  /\ lastWrite.op = "assign"

====
